---- MODULE Spec2Model ----
(***************************************************************************)
(* Fleet telemetry pipeline: the agent (src/Agent/Agent.py) and the        *)
(* collector's record store (src/Api/Api.py).                              *)
(*                                                                         *)
(* Specifications:                                                         *)
(*   SpecIP     get_real_ip applied to every combination of strategy       *)
(*              outcomes                                                   *)
(*   SpecProcs  collect_system_info applied to every visible process list  *)
(*   SpecSend   send_to_api(data, url, retries, backoff), one call         *)
(*   SpecLoop   the agent's main loop (FairLoop: with its scheduling)      *)
(*   SpecStore  concurrent POST /send handlers and one aggregation read    *)
(*   SpecStats  the stored records in any listing order, then one GET      *)
(*              /api/stats, /query or /download request                    *)
(***************************************************************************)
EXTENDS Integers, Sequences, FiniteSets, TLC

VARIABLES
    ip_in,        \* outcomes of the three IP strategies offered by the host
    ip_out,       \* what get_real_ip returned on them (NoValue before the call)
    process_list, \* collect_system_info: the pinfo dicts appended by the second pass
    skipped,      \* whether some process raised in the second pass and was skipped
    denied_seen,  \* whether some process was read with cpu_percent = None
    snapshot,     \* what collect_system_info returned on them (NoValue before)
    pc,           \* position of the agent: main loop and send_to_api
    retries,      \* send_to_api parameter
    backoff,      \* send_to_api parameter
    attempt,      \* send_to_api: the loop variable of range(retries)
    outcomes,     \* send_to_api: outcome of each POST made so far
    sleeps,       \* send_to_api: argument of each time.sleep made so far
    result,       \* send_to_api: return value (NoValue before it returns)
    env,          \* main loop: what the host offers in this iteration
    info,         \* main loop: collect_system_info's return (or its exception)
    printed,      \* main loop: lines printed by the loop body in this iteration
    prev,         \* main loop: how the previous iteration ended
    files,        \* collector: the system_data_<timestamp>.json files
    req,          \* collector: the POST /send handlers
    reader,       \* collector: one get_all_data_from_json call
    store,        \* collector: the data files as os.listdir lists them
    now,          \* collector: datetime.now() of the request being served
    stats,        \* collector: the response of GET /api/stats (NoValue before)
    resp          \* collector: the response of /query or /download (NoValue before)

ipVars    == <<ip_in, ip_out>>
procVars  == <<process_list, skipped, denied_seen, snapshot>>
sendVars  == <<pc, retries, backoff, attempt, outcomes, sleeps, result>>
loopVars  == <<env, info, printed, prev>>
storeVars == <<files, req, reader>>
statsVars == <<store, now, stats, resp>>
vars == <<ip_in, ip_out, process_list, skipped, denied_seen, snapshot,
          pc, retries, backoff, attempt, outcomes, sleeps, result,
          env, info, printed, prev, files, req, reader,
          store, now, stats, resp>>

NoValue == [kind |-> "none"]

Range(s) == {s[i] : i \in 1..Len(s)}

\* str.startswith(prefix), on strings held as sequences
StartsWith(s, p) == Len(s) >= Len(p) /\ SubSeq(s, 1, Len(p)) = p

StartsWithAny(s, ps) == \E p \in ps : StartsWith(s, p)

(***************************************************************************)
(* get_real_ip                                                             *)
(*                                                                         *)
(* An IPv4 literal is its four octets; '127.' is the prefix <<127>> and    *)
(* '169.254.' the prefix <<169, 254>>.  An interface name is its sequence  *)
(* of characters.                                                          *)
(***************************************************************************)
LoopbackIP  == <<127, 0, 0, 1>>
Loopback2IP == <<127, 0, 1, 1>>
LinkLocalIP == <<169, 254, 10, 7>>
RoutableIP  == <<192, 168, 1, 20>>
Routable2IP == <<10, 0, 0, 5>>

IsLoopback(ip) == StartsWith(ip, <<127>>)

IfLo      == <<"l", "o">>
IfEth0    == <<"e", "t", "h", "0">>
IfDocker0 == <<"d", "o", "c", "k", "e", "r", "0">>
IfWlan0   == <<"w", "l", "a", "n", "0">>

SkippedIfPrefixes == {<<"l", "o">>, <<"d", "o", "c", "k", "e", "r">>,
                      <<"b", "r", "-">>, <<"v", "e", "t", "h">>}

RejectedIpPrefixes == {<<127>>, <<169, 254>>}

Warn(m) == [level |-> "warning", msg |-> m]
LogInfo(m) == [level |-> "info", msg |-> m]

\* lines 47-53: the first AF_INET address of one interface that is accepted
RECURSIVE FirstAccepted(_)
FirstAccepted(addr_list) ==
    IF addr_list = <<>> THEN NoValue
    ELSE LET addr == Head(addr_list) IN
         IF addr.family = "AF_INET"
            /\ ~StartsWithAny(addr.address, RejectedIpPrefixes)
         THEN [kind |-> "ip", ip |-> addr.address]
         ELSE FirstAccepted(Tail(addr_list))

\* lines 43-53: the scan of psutil.net_if_addrs().items()
RECURSIVE ScanInterfaces(_)
ScanInterfaces(addrs) ==
    IF addrs = <<>> THEN NoValue
    ELSE LET item == Head(addrs) IN
         IF StartsWithAny(item.interface, SkippedIfPrefixes)
         THEN ScanInterfaces(Tail(addrs))
         ELSE LET found == FirstAccepted(item.addr_list) IN
              IF found.kind = "ip" THEN found
              ELSE ScanInterfaces(Tail(addrs))

\* Method 1 (lines 28-38): the address getsockname() gives is returned as it is
Method1(s1) ==
    IF s1.kind = "raise"
    THEN [ret |-> NoValue, log |-> <<Warn("metodo 1")>>]
    ELSE [ret |-> [kind |-> "ip", ip |-> s1.ip], log |-> <<>>]

\* Method 2 (lines 40-55)
Method2(s2) ==
    IF s2.kind = "raise"
    THEN [ret |-> NoValue, log |-> <<Warn("metodo 2")>>]
    ELSE LET found == ScanInterfaces(s2.addrs) IN
         IF found.kind = "ip"
         THEN [ret |-> found, log |-> <<LogInfo("interfaz")>>]
         ELSE [ret |-> NoValue, log |-> <<>>]

\* Method 3 (lines 57-64)
Method3(s3) ==
    IF s3.kind = "raise"
    THEN [ret |-> NoValue, log |-> <<Warn("metodo 3")>>]
    ELSE IF ~StartsWith(s3.ip, <<127>>)
         THEN [ret |-> [kind |-> "ip", ip |-> s3.ip], log |-> <<>>]
         ELSE [ret |-> NoValue, log |-> <<>>]

\* lines 26-68.  tried: the strategies attempted, in order (4 is the fallback)
get_real_ip(s1, s2, s3) ==
    LET m1 == Method1(s1) IN
    IF m1.ret.kind = "ip"
    THEN [kind |-> "ret", ip |-> m1.ret.ip, log |-> m1.log, tried |-> <<1>>]
    ELSE
    LET m2 == Method2(s2) IN
    IF m2.ret.kind = "ip"
    THEN [kind |-> "ret", ip |-> m2.ret.ip, log |-> m1.log \o m2.log,
          tried |-> <<1, 2>>]
    ELSE
    LET m3 == Method3(s3) IN
    IF m3.ret.kind = "ip"
    THEN [kind |-> "ret", ip |-> m3.ret.ip, log |-> m1.log \o m2.log \o m3.log,
          tried |-> <<1, 2, 3>>]
    ELSE [kind |-> "ret", ip |-> LoopbackIP,
          log |-> m1.log \o m2.log \o m3.log \o <<Warn("fallback")>>,
          tried |-> <<1, 2, 3, 4>>]

\* ---- the hosts get_real_ip is applied to
MaxIfaces == 2

Raised == [kind |-> "raise"]

SocketOutcomes ==
    {Raised} \cup {[kind |-> "ip", ip |-> a] :
                      a \in {LoopbackIP, LinkLocalIP, RoutableIP}}

HostnameOutcomes ==
    {Raised} \cup {[kind |-> "ip", ip |-> a] :
                      a \in {LoopbackIP, Loopback2IP, LinkLocalIP, Routable2IP}}

Addr(f, a) == [family |-> f, address |-> a]

AddrLists ==
    { <<>>,
      <<Addr("AF_INET", LoopbackIP)>>,
      <<Addr("AF_INET", LinkLocalIP)>>,
      <<Addr("AF_INET", RoutableIP)>>,
      <<Addr("AF_PACKET", <<0>>), Addr("AF_INET", LinkLocalIP),
        Addr("AF_INET", Routable2IP)>>,
      <<Addr("AF_INET6", <<0>>)>> }

IfNames == {IfLo, IfEth0, IfDocker0, IfWlan0}

\* net_if_addrs() is a dict: its items have distinct interface names
IfaceLists ==
    UNION { { s \in [1..n -> [interface : IfNames, addr_list : AddrLists]] :
                \A i, j \in 1..n : i # j => s[i].interface # s[j].interface }
            : n \in 0..MaxIfaces }

IfaceOutcomes == {Raised} \cup {[kind |-> "ifaces", addrs |-> l] : l \in IfaceLists}

IpInputs == [s1 : SocketOutcomes, s2 : IfaceOutcomes, s3 : HostnameOutcomes]

ResolveIP ==
    /\ ip_out = NoValue
    /\ ip_in # NoValue
    /\ ip_out' = get_real_ip(ip_in.s1, ip_in.s2, ip_in.s3)
    /\ UNCHANGED <<ip_in, statsVars, procVars, sendVars, loopVars, storeVars>>

(***************************************************************************)
(* collect_system_info                                                     *)
(*                                                                         *)
(* A cpu_percent is None (psutil fills an attribute it may not read with   *)
(* None) or a number.                                                      *)
(***************************************************************************)
PyNone == [isnone |-> TRUE, v |-> 0]
Num(x) == [isnone |-> FALSE, v |-> x]

TopProcesses == 10

Min(a, b) == IF a <= b THEN a ELSE b

\* sorted(..., reverse=True) keeps equal keys in their original order: x goes
\* behind every element whose key is not smaller
RECURSIVE InsertDesc(_, _)
InsertDesc(sorted, x) ==
    IF sorted = <<>> THEN <<x>>
    ELSE IF Head(sorted).cpu_percent.v >= x.cpu_percent.v
         THEN <<Head(sorted)>> \o InsertDesc(Tail(sorted), x)
         ELSE <<x>> \o sorted

Unsorted(l) == l

RECURSIVE SortedByCpuDesc(_)
SortedByCpuDesc(l) ==
    IF l = <<>> THEN <<>>
    ELSE InsertDesc(SortedByCpuDesc(SubSeq(l, 1, Len(l) - 1)), l[Len(l)])

\* comparing None with anything is a TypeError, and sorting two or more
\* elements compares each of them at least once
SortRaises(l) == Len(l) >= 2 /\ \E i \in 1..Len(l) : l[i].cpu_percent.isnone

\* lines 83-113: iter is "ok", or "raise" when process_iter itself raises
CollectProcesses(iter, plist) ==
    IF iter = "raise" \/ SortRaises(plist)
    THEN [processes |-> <<>>, log |-> <<[level |-> "error", msg |-> "procesos"]>>]
    ELSE [processes |-> SubSeq(SortedByCpuDesc(plist), 1,
                               Min(TopProcesses, Len(plist))),
          log |-> <<>>]

\* lines 115-133: users is what psutil.users() gives ("raise" or a list),
\* self_user what psutil.Process() gives for the fallback entry
CollectUsers(users, self_user) ==
    LET first == IF users.kind = "raise"
                 THEN [users |-> <<>>, log |-> <<[level |-> "error", msg |-> "usuarios"]>>]
                 ELSE [users |-> users.list, log |-> <<>>]
    IN IF first.users # <<>> THEN first
       ELSE IF self_user.kind = "raise"
            THEN [users |-> <<>>, log |-> first.log \o <<Warn("usuario del proceso")>>]
            ELSE [users |-> <<self_user.user>>, log |-> first.log]

\* lines 70-156.  The CPU reads (lines 77-81) and the OS reads (lines 135-140)
\* are in no try block: what they raise leaves the function
collect_system_info(agent_id, e) ==
    LET ipr == get_real_ip(e.ip.s1, e.ip.s2, e.ip.s3)
        pr  == CollectProcesses(e.iter, e.process_list)
        ur  == CollectUsers(e.users, e.self_user)
    IN IF e.cpu.kind = "raise" THEN [kind |-> "raise", exc |-> e.cpu.exc]
       ELSE IF e.os.kind = "raise" THEN [kind |-> "raise", exc |-> e.os.exc]
       ELSE [kind |-> "ret",
             data |-> [ip |-> ipr.ip,
                       agent_id |-> agent_id,
                       cpu |-> [count |-> e.cpu.count,
                                frequency |-> e.cpu.frequency,
                                model |-> e.cpu.model],
                       processes |-> pr.processes,
                       users |-> ur.users,
                       os |-> e.os.info,
                       timestamp |-> e.now],
             log |-> ipr.log \o pr.log \o ur.log]

\* ---- the hosts collect_system_info is applied to
MaxProcs == 11

AgentId == "host-1"

CpuReadings == {0, 5}

CpuOk     == [kind |-> "ok", count |-> 4, frequency |-> Num(2400), model |-> "x86_64"]
CpuNoFreq == [kind |-> "ok", count |-> 4, frequency |-> PyNone, model |-> "x86_64"]
CpuRaises == [kind |-> "raise", exc |-> "NotImplementedError"]

OsOk     == [kind |-> "ok", info |-> [name |-> "Linux", hostname |-> "host"]]
OsRaises == [kind |-> "raise", exc |-> "OSError"]

UserRoot == [name |-> "root", terminal |-> "tty1"]
SelfUser == [name |-> "agent", terminal |-> "container"]

UsersOk     == [kind |-> "ok", list |-> <<UserRoot>>]
UsersNone   == [kind |-> "ok", list |-> <<>>]
UsersRaises == [kind |-> "raise"]

SelfOk     == [kind |-> "ok", user |-> SelfUser]
SelfRaises == [kind |-> "raise"]

IpPlain == [s1 |-> [kind |-> "ip", ip |-> RoutableIP], s2 |-> Raised, s3 |-> Raised]

QuietHost(plist) ==
    [ip |-> IpPlain, cpu |-> CpuOk, iter |-> "ok", process_list |-> plist,
     users |-> UsersOk, self_user |-> SelfOk, os |-> OsOk, now |-> 1]

Pinfo(c) == [pid |-> Len(process_list) + 1, cpu_percent |-> c]

\* lines 97-105, one process of the second pass.  first is the cpu_percent of
\* proc.info; again is what proc.cpu_percent(interval=0.1) does when it is 0
SecondPass(first, again) ==
    /\ snapshot = NoValue
    /\ Len(process_list) < MaxProcs
    /\ first.isnone => ~denied_seen
    /\ IF ~first.isnone /\ first.v = 0
       THEN IF again.kind = "raise"
            THEN /\ skipped' = TRUE
                 /\ UNCHANGED <<process_list, denied_seen>>
            ELSE /\ process_list' = Append(process_list, Pinfo(Num(again.v)))
                 /\ UNCHANGED <<skipped, denied_seen>>
       ELSE /\ process_list' = Append(process_list, Pinfo(first))
            /\ denied_seen' = (denied_seen \/ first.isnone)
            /\ UNCHANGED skipped
    /\ UNCHANGED <<snapshot, ipVars, statsVars, sendVars, loopVars, storeVars>>

\* lines 107-156: the rest of collect_system_info, once the second pass is over
FinishCollect ==
    /\ snapshot = NoValue
    /\ snapshot' = collect_system_info(AgentId, QuietHost(process_list))
    /\ UNCHANGED <<process_list, skipped, denied_seen, ipVars, statsVars, sendVars,
                   loopVars, storeVars>>

(***************************************************************************)
(* send_to_api                                                             *)
(***************************************************************************)
DefaultRetries == 3
DefaultBackoff == 2

MaxRetries == 3
MaxBackoff == 2

StatusCodes == {199, 200, 201, 299, 300, 500}

\* what one requests.post does: a response with a status code, or an exception
PostOutcomes == {[kind |-> "status", code |-> c] : c \in StatusCodes}
                \cup {[kind |-> "raise", code |-> 0]}

RECURSIVE Pow2(_)
Pow2(n) == IF n = 0 THEN 1 ELSE 2 * Pow2(n - 1)

Ret(v) == [kind |-> "ret", value |-> v]

\* a test that takes every response for a success
AnyResponse(code) == TRUE

\* line 163
IsSuccessStatus(code) == code = 200

\* line 174
BackoffDelay(b, i) == b * Pow2(i)

SleepsAfterEvery(i, n) == i < n

\* line 173
SleepsAfter(i, n) == i < n - 1

\* lines 160-174, one pass of the body of `for attempt in range(retries)` up
\* to the sleep
SendAttempt(o) ==
    /\ pc = "send"
    /\ attempt < retries
    /\ outcomes' = Append(outcomes, o)
    /\ IF o.kind = "status" /\ IsSuccessStatus(o.code)
       THEN /\ result' = Ret(TRUE)
            /\ pc' = "returned"
            /\ UNCHANGED attempt
       ELSE /\ UNCHANGED result
            /\ IF SleepsAfter(attempt, retries)
               THEN pc' = "backoff" /\ UNCHANGED attempt
               ELSE pc' = "send" /\ attempt' = attempt + 1
    /\ UNCHANGED <<retries, backoff, sleeps, ipVars, statsVars, procVars, loopVars, storeVars>>

\* line 174, and the step to the next value of range(retries)
SendSleep ==
    /\ pc = "backoff"
    /\ sleeps' = Append(sleeps, BackoffDelay(backoff, attempt))
    /\ attempt' = attempt + 1
    /\ pc' = "send"
    /\ UNCHANGED <<retries, backoff, outcomes, result, ipVars, statsVars, procVars,
                   loopVars, storeVars>>

\* lines 175-176: range(retries) is exhausted
SendGiveUp ==
    /\ pc = "send"
    /\ attempt >= retries
    /\ result' = Ret(FALSE)
    /\ pc' = "returned"
    /\ UNCHANGED <<retries, backoff, attempt, outcomes, sleeps, ipVars, statsVars, procVars,
                   loopVars, storeVars>>

(***************************************************************************)
(* The agent's main loop (lines 188-201)                                   *)
(***************************************************************************)
CatchesRequestErrors(exc) == exc \in {"RequestException", "ConnectionError"}

\* line 198, `except Exception`: every exception the loop body can raise
\* (NotImplementedError, OSError, AttributeError) derives from Exception
Catches(exc) == exc \in {"NotImplementedError", "OSError", "AttributeError"}

LoopProcessList ==
    <<[pid |-> 1, cpu_percent |-> Num(0)], [pid |-> 2, cpu_percent |-> Num(5)]>>

LoopHosts ==
    { [ip |-> IpPlain, cpu |-> c, iter |-> it, process_list |-> LoopProcessList,
       users |-> u,
       self_user |-> su, os |-> o, now |-> 1] :
        c \in {CpuOk, CpuNoFreq, CpuRaises}, it \in {"ok", "raise"},
        u \in {UsersOk, UsersNone, UsersRaises},
        su \in {SelfOk, SelfRaises}, o \in {OsOk, OsRaises} }

SendReset ==
    /\ retries' = 0
    /\ backoff' = 0
    /\ attempt' = 0
    /\ outcomes' = <<>>
    /\ sleeps' = <<>>
    /\ result' = NoValue

\* line 190: a new iteration starts on whatever the host is now
LoopTop ==
    /\ pc = "top"
    /\ env' \in LoopHosts
    /\ pc' = "collect"
    /\ UNCHANGED <<info, printed, prev, retries, backoff, attempt, outcomes,
                   sleeps, result, ipVars, statsVars, procVars, storeVars>>

\* lines 191-192: collect_system_info(agent_id), then the call of
\* send_to_api(info, api_url) with its default retries and backoff
LoopCollect ==
    /\ pc = "collect"
    /\ info' = collect_system_info(AgentId, env)
    /\ IF info'.kind = "raise"
       THEN /\ pc' = IF Catches(info'.exc) THEN "handler" ELSE "crashed"
            /\ UNCHANGED <<retries, backoff>>
       ELSE /\ pc' = "send"
            /\ retries' = DefaultRetries
            /\ backoff' = DefaultBackoff
    /\ UNCHANGED <<env, printed, prev, attempt, outcomes, sleeps, result,
                   ipVars, statsVars, procVars, storeVars>>

\* lines 193-197.  info['cpu'].get('frequency', {}) is None when the key holds
\* None, and None.get raises AttributeError before anything is printed
LoopMarker ==
    /\ pc = "returned"
    /\ IF result.value
       THEN IF info.data.cpu.frequency.isnone
            THEN /\ pc' = IF Catches("AttributeError") THEN "handler" ELSE "crashed"
                 /\ UNCHANGED printed
            ELSE /\ printed' = Append(printed, "success")
                 /\ pc' = "sleep"
       ELSE /\ printed' = Append(printed, "failure")
            /\ pc' = "sleep"
    /\ UNCHANGED <<env, info, prev, retries, backoff, attempt, outcomes, sleeps,
                   result, ipVars, statsVars, procVars, storeVars>>

\* lines 198-200
LoopHandler ==
    /\ pc = "handler"
    /\ printed' = Append(printed, "error")
    /\ pc' = "sleep"
    /\ UNCHANGED <<env, info, prev, retries, backoff, attempt, outcomes, sleeps,
                   result, ipVars, statsVars, procVars, storeVars>>

\* line 201, and back to `while True`; the iteration's locals are dropped
LoopSleep ==
    /\ pc = "sleep"
    /\ prev' = IF "error" \in Range(printed) THEN "failed" ELSE "ok"
    /\ pc' = "top"
    /\ env' = NoValue
    /\ info' = NoValue
    /\ printed' = <<>>
    /\ SendReset
    /\ UNCHANGED <<ipVars, statsVars, procVars, storeVars>>

(***************************************************************************)
(* The collector's record store: POST /send and get_all_data_from_json     *)
(*                                                                         *)
(* A file is the list of entries its text encodes.  len is the length of   *)
(* the text, counted in entries; ok is whether the text parses as JSON.    *)
(* Each aiofiles call runs in a worker thread and the handler awaits it,   *)
(* so the handlers interleave between any two file operations.             *)
(***************************************************************************)
MaxRequests == 3

Requests == 1..MaxRequests

Timestamps == {"t1", "t2"}

Absent == [exists |-> FALSE, len |-> 0, data |-> <<>>, ok |-> TRUE]

\* line 44-45: the entry of request r (received_at makes it its own)
Entry(r, ts) == [rid |-> r, timestamp |-> ts]

\* open(filename, 'w') truncates, and creates the file when there is none
Truncated == [exists |-> TRUE, len |-> 0, data |-> <<>>, ok |-> TRUE]

\* a handle opened with 'w' writes its text from offset 0: what another
\* handle wrote beyond the end of this text stays behind it
Overwrite(f, d) ==
    [exists |-> TRUE,
     len |-> IF f.len > Len(d) THEN f.len ELSE Len(d),
     data |-> d,
     ok |-> f.len <= Len(d)]

\* lines 30, 58, 74: json.loads(content) if content else []
Parse(f) == IF f.len = 0 THEN <<>> ELSE f.data

IdleRequest == [pc |-> "idle", ts |-> "t1", existing |-> <<>>]

\* lines 40-46 and 27, 32-33: the handler up to its first file operation
ReceiveInfo(r, ts) ==
    /\ req[r].pc = "idle"
    /\ req' = [req EXCEPT ![r] =
                 IF files[ts].exists
                 THEN [pc |-> "read", ts |-> ts, existing |-> <<>>]
                 ELSE [pc |-> "open_w", ts |-> ts, existing |-> <<Entry(r, ts)>>]]
    /\ UNCHANGED <<files, reader, ipVars, statsVars, procVars, sendVars, loopVars>>

\* lines 28-31 (and 36-37 when the text does not parse)
SaveRead(r) ==
    /\ req[r].pc = "read"
    /\ LET f == files[req[r].ts] IN
       req' = [req EXCEPT ![r] =
                 IF f.ok
                 THEN [@ EXCEPT !.pc = "open_w",
                                !.existing = Append(Parse(f), Entry(r, req[r].ts))]
                 ELSE [@ EXCEPT !.pc = "failed"]]
    /\ UNCHANGED <<files, reader, ipVars, statsVars, procVars, sendVars, loopVars>>

\* line 34
SaveOpenWrite(r) ==
    /\ req[r].pc = "open_w"
    /\ files' = [files EXCEPT ![req[r].ts] = Truncated]
    /\ req' = [req EXCEPT ![r].pc = "write"]
    /\ UNCHANGED <<reader, ipVars, statsVars, procVars, sendVars, loopVars>>

\* line 35 and the close of the handle; the handler then returns (line 48)
SaveWrite(r) ==
    /\ req[r].pc = "write"
    /\ files' = [files EXCEPT ![req[r].ts] = Overwrite(@, req[r].existing)]
    /\ req' = [req EXCEPT ![r].pc = "done"]
    /\ UNCHANGED <<reader, ipVars, statsVars, procVars, sendVars, loopVars>>

\* the entries whose POST has completed
Completed ==
    {Entry(r, req[r].ts) : r \in {q \in Requests : req[q].pc = "done"}}

IdleReader == [pc |-> "idle", todo |-> {}, results |-> <<>>, before |-> {}]

\* line 68: os.listdir('.'), as get_stats calls get_all_data_from_json
ReadStart ==
    /\ reader.pc = "idle"
    /\ reader' = [reader EXCEPT !.pc = "reading",
                                 !.todo = {ts \in Timestamps : files[ts].exists},
                                 !.before = Completed]
    /\ UNCHANGED <<files, req, ipVars, statsVars, procVars, sendVars, loopVars>>

\* lines 71-78, one file of the listing: a text that does not parse is skipped
ReadFile(ts) ==
    /\ reader.pc = "reading"
    /\ ts \in reader.todo
    /\ LET f == files[ts] IN
       reader' = [reader EXCEPT
                    !.todo = @ \ {ts},
                    !.results = IF f.ok THEN @ \o Parse(f) ELSE @]
    /\ UNCHANGED <<files, req, ipVars, statsVars, procVars, sendVars, loopVars>>

\* line 79
ReadReturn ==
    /\ reader.pc = "reading"
    /\ reader.todo = {}
    /\ reader' = [reader EXCEPT !.pc = "done"]
    /\ UNCHANGED <<files, req, ipVars, statsVars, procVars, sendVars, loopVars>>

\* lines 65-79 run on the files as they are now
get_all_data_from_json ==
    UNION {Range(Parse(files[ts])) : ts \in {t \in Timestamps : files[t].exists /\ files[t].ok}}

(***************************************************************************)
(* The collector's aggregation: get_stats, src/Api/Api.py lines 669-850.   *)
(*                                                                         *)
(* A stored entry is the dict of one JSON object: missing is the set of    *)
(* keys the object does not have, JsonNull the value null.  Times are in   *)
(* seconds on the server's clock; an ISO string of datetime.isoformat()    *)
(* parses back to the time it was made from, and such strings compare as   *)
(* their times do.  A frequency is in MHz, a cpu_percent is Num(n) or      *)
(* PyNone.                                                                 *)
(***************************************************************************)
ActiveWindow == 300

StaleAfter == 120

HighCpu == 50

CriticalCpu == 80

TimelineRecords == 20

LatestRecords == 10

TopShown == 10

HighCpuShown == 20

JsonNull == "<null>"

\* the truth value of a str or None
Truthy(v) == v # JsonNull /\ v # ""

Max(a, b) == IF a >= b THEN a ELSE b

FirstN(s, n) == SubSeq(s, 1, Min(n, Len(s)))

LastN(s, n) == SubSeq(s, Max(1, Len(s) - n + 1), Len(s))

RECURSIVE Flatten(_)
Flatten(ss) == IF ss = <<>> THEN <<>> ELSE Head(ss) \o Flatten(Tail(ss))

\* a list of pairs that takes every assignment as a new pair
PairAppended(d, key, val) == Append(d, [k |-> key, v |-> val])

\* a dict keeps its keys in the order of their first insertion
DictSet(d, key, val) ==
    IF \E i \in 1..Len(d) : d[i].k = key
    THEN [i \in 1..Len(d) |-> IF d[i].k = key THEN [k |-> key, v |-> val] ELSE d[i]]
    ELSE Append(d, [k |-> key, v |-> val])

DictGet(d, key, default) ==
    IF \E i \in 1..Len(d) : d[i].k = key
    THEN (CHOOSE e \in Range(d) : e.k = key).v
    ELSE default

Keys(d) == [i \in 1..Len(d) |-> d[i].k]

Values(d) == [i \in 1..Len(d) |-> d[i].v]

\* lines 730-732, 749-751: counts[x] = counts.get(x, 0) + 1 over a list
RECURSIVE CountValues(_)
CountValues(vals) ==
    IF vals = <<>> THEN <<>>
    ELSE LET d == CountValues(SubSeq(vals, 1, Len(vals) - 1))
             x == vals[Len(vals)]
         IN DictSet(d, x, DictGet(d, x, 0) + 1)

Labelled(d) == [labels |-> Keys(d), data |-> Values(d)]

\* an empty answer whose last_update is not the time of the request
StatsWithoutLastUpdate(t) ==
    [kind |-> "ok",
     total_records |-> 0,
     active_agents |-> 0,
     avg_cpu |-> [num |-> 0, den |-> 1],
     total_processes |-> 0,
     active_users |-> 0,
     last_update |-> 0,
     cpu_timeline |-> [labels |-> <<>>, data |-> <<>>],
     os_distribution |-> [labels |-> <<>>, data |-> <<>>],
     ip_activity |-> [labels |-> <<>>, data |-> <<>>],
     top_processes |-> [labels |-> <<>>, data |-> <<>>],
     processes |-> <<>>,
     users |-> <<>>,
     high_cpu_processes |-> <<>>,
     alerts |-> <<>>]

\* lines 674-690
EmptyStats(t) ==
    [kind |-> "ok",
     total_records |-> 0,
     active_agents |-> 0,
     avg_cpu |-> [num |-> 0, den |-> 1],
     total_processes |-> 0,
     active_users |-> 0,
     last_update |-> t,
     cpu_timeline |-> [labels |-> <<>>, data |-> <<>>],
     os_distribution |-> [labels |-> <<>>, data |-> <<>>],
     ip_activity |-> [labels |-> <<>>, data |-> <<>>],
     top_processes |-> [labels |-> <<>>, data |-> <<>>],
     processes |-> <<>>,
     users |-> <<>>,
     high_cpu_processes |-> <<>>,
     alerts |-> <<>>]

\* an exception that leaves the handler: the response is 500
ServerError(exc) == [kind |-> "raise", exc |-> exc, status |-> 500]

Has(item, key) == key \notin item.missing

\* line 700: item.get('received_at', item.get('timestamp')) parsed by
\* fromisoformat, which raises on None
ItemTime(item) ==
    IF Has(item, "received_at") THEN Num(item.received_at)
    ELSE IF Has(item, "timestamp") THEN Num(item.timestamp)
    ELSE PyNone

\* every agent of the records, whenever it was heard of
EverSeenAgents(data, t) ==
    {data[i].agent_id : i \in {j \in 1..Len(data) :
        Has(data[j], "agent_id") /\ Truthy(data[j].agent_id)}}

\* lines 696-705: the except branch adds the agent as the try branch does
RecentAgents(data, t) ==
    {data[i].agent_id : i \in {j \in 1..Len(data) :
        /\ Has(data[j], "agent_id")
        /\ Truthy(data[j].agent_id)
        /\ LET item_time == ItemTime(data[j])
           IN item_time.isnone \/ item_time.v > t - ActiveWindow}}

\* cpu.get('frequency', {}).get('current', 0): an absent frequency gives 0,
\* a null one raises AttributeError
FrequencyRaises(item) == item.cpu.frequency.kind = "null"

CurrentFrequency(item) ==
    IF item.cpu.frequency.kind = "dict" THEN item.cpu.frequency.current ELSE 0

\* line 710: the records whose cpu dict is not empty
WithCpu(data) == SelectSeq(data, LAMBDA item : ~item.cpu.empty)

RECURSIVE Sum(_)
Sum(s) == IF s = <<>> THEN 0 ELSE Head(s) + Sum(Tail(s))

\* lines 710-711 and 838: the mean in MHz over 1000, as a fraction
AvgCpu(data) ==
    LET with_cpu == WithCpu(data)
        cpu_freqs == [i \in 1..Len(with_cpu) |-> CurrentFrequency(with_cpu[i])]
    IN IF cpu_freqs = <<>> THEN [num |-> 0, den |-> 1]
       ELSE [num |-> Sum(cpu_freqs), den |-> Len(cpu_freqs) * 1000]

\* sorted(data, key=lambda x: x['timestamp']) keeps equal keys in their
\* original order: x goes behind every element whose key is not greater
RECURSIVE InsertByTimestamp(_, _)
InsertByTimestamp(sorted, x) ==
    IF sorted = <<>> THEN <<x>>
    ELSE IF Head(sorted).timestamp <= x.timestamp
         THEN <<Head(sorted)>> \o InsertByTimestamp(Tail(sorted), x)
         ELSE <<x>> \o sorted

RECURSIVE SortedByTimestamp(_)
SortedByTimestamp(l) ==
    IF l = <<>> THEN <<>>
    ELSE InsertByTimestamp(SortedByTimestamp(SubSeq(l, 1, Len(l) - 1)), l[Len(l)])

\* line 716: timestamp.split('T')[1][:8], the time of day
TimeOfDay(ts) == ts % (24 * 60 * 60)

\* lines 714-718
CpuTimeline(data) ==
    LET recent_data == LastN(SortedByTimestamp(data), TimelineRecords)
    IN [labels |-> [i \in 1..Len(recent_data) |-> TimeOfDay(recent_data[i].timestamp)],
        data |-> [i \in 1..Len(recent_data) |-> CurrentFrequency(recent_data[i])]]

\* lines 723 and 742: item.get('agent_id', item.get('ip')); the default is
\* used only when the key is absent, a null agent_id is returned as it is
FallbackId(item) ==
    IF Has(item, "agent_id") THEN item.agent_id
    ELSE IF Has(item, "ip") THEN item.ip
    ELSE JsonNull

\* lines 721-727
RECURSIVE OsByAgent(_)
OsByAgent(data) ==
    IF data = <<>> THEN <<>>
    ELSE LET d == OsByAgent(SubSeq(data, 1, Len(data) - 1))
             item == data[Len(data)]
         IN IF Truthy(FallbackId(item))
            THEN DictSet(d, FallbackId(item), item.os_name)
            ELSE d

\* lines 740-746
RECURSIVE IpByAgent(_)
IpByAgent(data) ==
    IF data = <<>> THEN <<>>
    ELSE LET d == IpByAgent(SubSeq(data, 1, Len(data) - 1))
             item == data[Len(data)]
         IN IF Truthy(FallbackId(item))
            THEN DictSet(d, FallbackId(item), item.ip)
            ELSE d

\* the records with the earliest timestamps
EarliestData(data) == FirstN(SortedByTimestamp(data), LatestRecords)

\* lines 759-769
LatestData(data) == LastN(SortedByTimestamp(data), LatestRecords)

AllProcesses(data) ==
    LET latest_data == LatestData(data)
    IN Flatten([i \in 1..Len(latest_data) |->
          [j \in 1..Len(latest_data[i].processes) |->
              [name |-> latest_data[i].processes[j].name,
               pid |-> latest_data[i].processes[j].pid,
               cpu_percent |-> latest_data[i].processes[j].cpu_percent,
               ip |-> latest_data[i].ip,
               timestamp |-> latest_data[i].timestamp]]])

\* line 772, the sort of Python's sorted(..., reverse=True)
TopProcessesList(all_processes) ==
    FirstN(SortedByCpuDesc(all_processes), TopShown)

\* line 774: f"{name} (PID: {pid})"
ProcessLabel(p) == [name |-> p.name, pid |-> p.pid]

\* line 779
HighCpuProcesses(all_processes) ==
    FirstN(SelectSeq(all_processes, LAMBDA p : p.cpu_percent.v > HighCpu), HighCpuShown)

\* lines 785-790
AllUsers(data) ==
    LET latest_data == LatestData(data)
    IN Flatten([i \in 1..Len(latest_data) |->
          [j \in 1..Len(latest_data[i].users) |->
              [name |-> latest_data[i].users[j].name,
               terminal |-> latest_data[i].users[j].terminal,
               ip |-> latest_data[i].ip]]])

\* a name or a terminal is a string of characters, or None, written
\* <<JsonNull>>; an f-string prints None as the four characters of "None"
Formatted(v) == IF v = <<JsonNull>> THEN <<"N", "o", "n", "e">> ELSE v

\* line 796: f"{name}-{terminal}-{ip}"
UserKey(user) ==
    Formatted(user.name) \o <<"-">> \o Formatted(user.terminal) \o <<"-", user.ip>>

\* lines 793-799: the first user of each key, in order
RECURSIVE UniqueUsers(_)
UniqueUsers(all_users) ==
    IF all_users = <<>> THEN <<>>
    ELSE LET before == SubSeq(all_users, 1, Len(all_users) - 1)
             user == all_users[Len(all_users)]
         IN IF \E i \in 1..Len(before) : UserKey(before[i]) = UserKey(user)
            THEN UniqueUsers(before)
            ELSE Append(UniqueUsers(before), user)

\* a critical band that starts at the threshold itself
CriticalFromThreshold(cpu_percent) == cpu_percent >= CriticalCpu

\* lines 807 and 816: the bands of the two CPU rules
IsCritical(cpu_percent) == cpu_percent > CriticalCpu

IsWarning(cpu_percent) == HighCpu < cpu_percent /\ cpu_percent <= CriticalCpu

\* an alert: its type, the rule its message belongs to and the number the
\* message states
Alert(type, rule, n) == [type |-> type, rule |-> rule, n |-> n]

\* lines 806-822
CpuAlerts(all_processes) ==
    LET critical_processes == SelectSeq(all_processes, LAMBDA p : IsCritical(p.cpu_percent.v))
        warning_processes == SelectSeq(all_processes, LAMBDA p : IsWarning(p.cpu_percent.v))
    IN (IF critical_processes # <<>>
        THEN <<Alert("danger", "critical", Len(critical_processes))>> ELSE <<>>)
       \o (IF warning_processes # <<>>
           THEN <<Alert("warning", "elevated", Len(warning_processes))>> ELSE <<>>)

\* lines 825-833: data is not empty here; int(time_diff / 60) of a positive
\* time_diff is its floor
StaleAlert(data, t) ==
    LET last_timestamp == data[Len(data)].received_at
        time_diff == t - last_timestamp
    IN IF time_diff > StaleAfter
       THEN <<Alert("warning", "stale", time_diff \div 60)>>
       ELSE <<>>

\* lines 669-850.  What raises in the handler leaves it: line 710 on a null
\* frequency, lines 714, 743, 826 on an absent key, lines 772 and 779 on a
\* cpu_percent of None
get_stats(data, t) ==
    IF data = <<>> THEN EmptyStats(t)
    ELSE IF \E i \in 1..Len(data) : ~data[i].cpu.empty /\ FrequencyRaises(data[i])
    THEN ServerError("AttributeError")
    ELSE IF \E i \in 1..Len(data) : ~Has(data[i], "timestamp")
    THEN ServerError("KeyError")
    ELSE IF \E i \in 1..Len(data) : ~Has(data[i], "ip")
    THEN ServerError("KeyError")
    ELSE IF \E p \in Range(AllProcesses(data)) : p.cpu_percent.isnone
    THEN ServerError("TypeError")
    ELSE IF ~Has(data[Len(data)], "received_at")
    THEN ServerError("KeyError")
    ELSE
    LET all_processes == AllProcesses(data)
        top_processes_list == TopProcessesList(all_processes)
        unique_users == UniqueUsers(AllUsers(data))
    IN [kind |-> "ok",
        total_records |-> Len(data),
        active_agents |-> Cardinality(RecentAgents(data, t)),
        avg_cpu |-> AvgCpu(data),
        total_processes |-> Cardinality({all_processes[i].name : i \in 1..Len(all_processes)}),
        active_users |-> Len(unique_users),
        last_update |-> data[Len(data)].received_at,
        cpu_timeline |-> CpuTimeline(data),
        os_distribution |-> Labelled(CountValues(Values(OsByAgent(data)))),
        ip_activity |-> Labelled(CountValues(Values(IpByAgent(data)))),
        top_processes |->
            [labels |-> [i \in 1..Len(top_processes_list) |-> ProcessLabel(top_processes_list[i])],
             data |-> [i \in 1..Len(top_processes_list) |-> top_processes_list[i].cpu_percent.v]],
        processes |-> top_processes_list,
        users |-> unique_users,
        high_cpu_processes |-> HighCpuProcesses(all_processes),
        alerts |-> CpuAlerts(all_processes) \o StaleAlert(data, t)]

(***************************************************************************)
(* The store as the aggregation and the queries see it: the files of the   *)
(* working directory named system_data_*.json, in the order os.listdir     *)
(* gives them, which is any order.                                         *)
(***************************************************************************)
\* lines 65-79: a file whose text does not parse is skipped
ListAllData(listing) ==
    Flatten([i \in 1..Len(listing) |-> IF listing[i].ok THEN listing[i].data ELSE <<>>])

\* line 59: extend() takes the entries one by one, so the KeyError of an
\* entry without ip ends the file after the entries before it were taken
RECURSIVE UpToKeyError(_)
UpToKeyError(entries) ==
    IF entries = <<>> \/ ~Has(Head(entries), "ip") THEN <<>>
    ELSE <<Head(entries)>> \o UpToKeyError(Tail(entries))

\* a test that takes every entry that has an ip
AnyAddress(entry, ip) == Has(entry, "ip")

\* line 59: the test of one entry
Matches(entry, ip) == entry.ip = ip

\* lines 50-63
search_json_files(listing, ip) ==
    Flatten([i \in 1..Len(listing) |->
        IF listing[i].ok
        THEN SelectSeq(UpToKeyError(listing[i].data), LAMBDA entry : Matches(entry, ip))
        ELSE <<>>])

NotFound(detail) == [status |-> 404, detail |-> detail, body |-> <<>>]

Served(body) == [status |-> 200, detail |-> "", body |-> body]

\* lines 81-87
query_info(listing, ip) ==
    LET results == search_json_files(listing, ip)
    IN IF results = <<>> THEN NotFound("IP no encontrada") ELSE Served(results)

\* lines 91-94 and 110-113: an ip that is absent or empty selects everything
Selected(listing, ip) ==
    IF Truthy(ip) THEN search_json_files(listing, ip) ELSE ListAllData(listing)

\* lines 89-105
download_json(listing, ip) ==
    LET results == Selected(listing, ip)
    IN IF results = <<>> THEN NotFound("No hay datos disponibles") ELSE Served(results)

\* lines 125-134: one row of the CSV
CsvRow(item) ==
    [ip |-> item.ip,
     agent_id |-> IF Has(item, "agent_id") THEN item.agent_id ELSE "",
     cpu_frequency |-> item.cpu.frequency,
     os_name |-> item.os_name,
     timestamp |-> item.timestamp,
     received_at |-> item.received_at]

\* lines 107-140: building a row raises on an absent ip, timestamp or
\* received_at and on a null frequency
download_csv(listing, ip) ==
    LET results == Selected(listing, ip)
    IN IF results = <<>> THEN NotFound("No hay datos disponibles")
       ELSE IF \E i \in 1..Len(results) :
                   \/ results[i].missing \cap {"ip", "timestamp", "received_at"} # {}
                   \/ FrequencyRaises(results[i])
       THEN [status |-> 500, detail |-> "", body |-> <<>>]
       ELSE Served([i \in 1..Len(results) |-> CsvRow(results[i])])

(***************************************************************************)
(* What the agents post and what the directory holds                       *)
(***************************************************************************)
MaxRecords == 2

Addresses == {"10.0.0.5", "10.0.0.6"}

OsOf(ip) == IF ip = "10.0.0.5" THEN "Linux" ELSE "Windows"

SnapshotTimes == {10, 170}

RecvTimes == {0, 180}

NowTimes == {299, 300, 301}

Freq(n) == [kind |-> "dict", current |-> n]

FreqNull == [kind |-> "null", current |-> 0]

FreqAbsent == [kind |-> "absent", current |-> 0]

Cpu(f) == [empty |-> FALSE, frequency |-> f]

EmptyCpu == [empty |-> TRUE, frequency |-> FreqAbsent]

Proc(name, pid, cpu_percent) == [name |-> name, pid |-> pid, cpu_percent |-> cpu_percent]

ProcessLists ==
    {<<Proc("init", 1, Num(50))>>,
     <<Proc("init", 1, Num(51)), Proc("sshd", 2, Num(80))>>,
     <<Proc("java", 3, Num(81)), Proc("init", 1, Num(80)), Proc("java", 4, Num(81))>>,
     <<Proc("idle", 0, PyNone)>>}

RootUser == [name |-> <<"r", "o", "o", "t">>, terminal |-> <<"t", "t", "y", "1">>]

Payload(agent_id, ip, cpu, processes, users, ts) ==
    [ip |-> ip, agent_id |-> agent_id, cpu |-> cpu, processes |-> processes,
     users |-> users, os_name |-> OsOf(ip), timestamp |-> ts]

\* the machine of agent-2 runs at another frequency
FrequencyOf(agent_id) == IF agent_id = "agent-2" THEN Freq(3000) ELSE Freq(2000)

Identities ==
    {[agent_id |-> "agent-1", ts |-> 10], [agent_id |-> "agent-1", ts |-> 170],
     [agent_id |-> "agent-2", ts |-> 170], [agent_id |-> JsonNull, ts |-> 10]}

Payloads ==
    {Payload(id.agent_id, ip, Cpu(FrequencyOf(id.agent_id)), <<>>, <<>>, id.ts) :
        id \in Identities, ip \in Addresses}
    \cup {Payload("agent-1", "10.0.0.5", c, <<>>, <<>>, 10) :
            c \in {Cpu(FreqNull), Cpu(FreqAbsent), EmptyCpu}}
    \cup {Payload("agent-1", "10.0.0.5", Cpu(Freq(2000)), pl, <<>>, 10) : pl \in ProcessLists}
    \cup {Payload("agent-1", "10.0.0.5", Cpu(Freq(2000)), <<>>, <<RootUser>>, 10)}

\* lines 44-45: info.dict() has every field of SystemInfo, agent_id included
StoredEntry(p, t) ==
    [missing |-> {}, ip |-> p.ip, agent_id |-> p.agent_id, cpu |-> p.cpu,
     processes |-> p.processes, users |-> p.users, os_name |-> p.os_name,
     timestamp |-> p.timestamp, received_at |-> t]

\* an entry that POST /send did not write: one of its keys is absent
ForeignEntries ==
    {[StoredEntry(Payload("agent-1", "10.0.0.5", Cpu(Freq(2000)), <<>>, <<>>, 10), 0)
        EXCEPT !.missing = {key}] : key \in {"timestamp", "ip", "received_at"}}

InsertAt(s, k, x) == SubSeq(s, 1, k - 1) \o <<x>> \o SubSeq(s, k, Len(s))

EntryCount(listing) == Sum([i \in 1..Len(listing) |-> Len(listing[i].data)])

Quiet == stats = NoValue /\ resp = NoValue

\* lines 39-48 and 25-37, one POST /send served alone at server time t: the
\* entry goes behind the entries of the file of its timestamp, or into a new
\* file, which os.listdir may list at any place k
PostSend(p, t, k) ==
    /\ Quiet
    /\ EntryCount(store) < MaxRecords
    /\ \A i \in 1..Len(store) : \A j \in 1..Len(store[i].data) :
           store[i].data[j].received_at <= t
    /\ k \in 1..(Len(store) + 1)
    /\ IF \E i \in 1..Len(store) : store[i].name = p.timestamp
       THEN /\ k <= Len(store)
            /\ store[k].name = p.timestamp
            /\ store[k].ok
            /\ store' = [store EXCEPT ![k].data = Append(@, StoredEntry(p, t))]
       ELSE store' = InsertAt(store, k, [name |-> p.timestamp, ok |-> TRUE,
                                         data |-> <<StoredEntry(p, t)>>])
    /\ UNCHANGED <<now, stats, resp, ipVars, procVars, sendVars, loopVars, storeVars>>

\* lines 34-35 under two interleaved POSTs: the text of a file no longer parses
CorruptFile(k) ==
    /\ Quiet
    /\ k \in 1..Len(store)
    /\ \A i \in 1..Len(store) : store[i].ok
    /\ store' = [store EXCEPT ![k].ok = FALSE]
    /\ UNCHANGED <<now, stats, resp, ipVars, procVars, sendVars, loopVars, storeVars>>

\* lines 53 and 69: every file of the directory named system_data_*.json is
\* read, whoever wrote it
ForeignFile(e, k) ==
    /\ Quiet
    /\ EntryCount(store) < MaxRecords
    /\ \A i \in 1..Len(store) : store[i].name # 0
    /\ k \in 1..(Len(store) + 1)
    /\ store' = InsertAt(store, k, [name |-> 0, ok |-> TRUE, data |-> <<e>>])
    /\ UNCHANGED <<now, stats, resp, ipVars, procVars, sendVars, loopVars, storeVars>>

\* GET /api/stats at server time t
GetStats(t) ==
    /\ Quiet
    /\ now' = t
    /\ stats' = get_stats(ListAllData(store), t)
    /\ UNCHANGED <<store, resp, ipVars, procVars, sendVars, loopVars, storeVars>>

QueriedAddresses == {"10.0.0.5", "10.0.0.9"}

\* GET /query?ip=...
QueryInfo(ip) ==
    /\ Quiet
    /\ resp' = [kind |-> "resp", endpoint |-> "/query", ip |-> ip,
                response |-> query_info(store, ip)]
    /\ UNCHANGED <<store, now, stats, ipVars, procVars, sendVars, loopVars, storeVars>>

\* GET /download/json, with ip or without (JsonNull)
DownloadJson(ip) ==
    /\ Quiet
    /\ resp' = [kind |-> "resp", endpoint |-> "/download/json", ip |-> ip,
                response |-> download_json(store, ip)]
    /\ UNCHANGED <<store, now, stats, ipVars, procVars, sendVars, loopVars, storeVars>>

\* GET /download/csv, with ip or without (JsonNull)
DownloadCsv(ip) ==
    /\ Quiet
    /\ resp' = [kind |-> "resp", endpoint |-> "/download/csv", ip |-> ip,
                response |-> download_csv(store, ip)]
    /\ UNCHANGED <<store, now, stats, ipVars, procVars, sendVars, loopVars, storeVars>>

(***************************************************************************)
(* Sessions: what the agents report in users (Agent.py lines 115-133)      *)
(***************************************************************************)
Session(name, terminal) == [name |-> name, terminal |-> terminal]

Sessions ==
    {Session(<<"a", "-", "b">>, <<"c">>),
     Session(<<"a">>, <<"b", "-", "c">>),
     Session(<<"a">>, <<JsonNull>>),
     Session(<<"a">>, <<"N", "o", "n", "e">>)}

SessionLists ==
    {<<u>> : u \in Sessions}
    \cup {<<Session(<<"a", "-", "b">>, <<"c">>), Session(<<"a", "-", "b">>, <<"c">>)>>,
          <<Session(<<"a">>, <<JsonNull>>), Session(<<"a", "-", "b">>, <<"c">>)>>}

SessionPayloads ==
    {Payload("agent-1", ip, Cpu(Freq(2000)), <<>>, ul, ts) :
        ip \in Addresses, ul \in SessionLists, ts \in SnapshotTimes}

(***************************************************************************)
(* Many snapshots: more than get_stats looks at (LatestRecords), each with *)
(* one or two processes                                                    *)
(***************************************************************************)
MaxSnapshots == 11

BusyLists ==
    {<<Proc("init", 1, Num(0))>>,
     <<Proc("sshd", 2, Num(0)), Proc("java", 3, Num(5))>>}

\* the snapshots of second 170 have one process or two, those of second 10
\* one
BusyPayloads ==
    {Payload("agent-1", "10.0.0.5", Cpu(Freq(2000)), pl, <<>>, 170) : pl \in BusyLists}
    \cup {Payload("agent-1", "10.0.0.5", Cpu(Freq(2000)), <<Proc("init", 1, Num(5))>>,
                  <<>>, 10)}

\* lines 39-48 and 25-37, as PostSend, in a directory that takes more entries
PostOfMany(p, t, k) ==
    /\ Quiet
    /\ EntryCount(store) < MaxSnapshots
    /\ k \in 1..(Len(store) + 1)
    /\ IF \E i \in 1..Len(store) : store[i].name = p.timestamp
       THEN /\ k <= Len(store)
            /\ store[k].name = p.timestamp
            /\ store[k].ok
            /\ store' = [store EXCEPT ![k].data = Append(@, StoredEntry(p, t))]
       ELSE store' = InsertAt(store, k, [name |-> p.timestamp, ok |-> TRUE,
                                         data |-> <<StoredEntry(p, t)>>])
    /\ UNCHANGED <<now, stats, resp, ipVars, procVars, sendVars, loopVars, storeVars>>

(***************************************************************************)
(* Redelivery: send_to_api posts the same snapshot again when it takes an  *)
(* attempt for failed that the collector has served (Agent.py lines        *)
(* 158-176); the agent posts nothing else in between                       *)
(***************************************************************************)
RetryTimes == {0, 1}

RetryNowTimes == {300, 301}

RetryPayloads ==
    {Payload(id.agent_id, ip, Cpu(FrequencyOf(id.agent_id)), <<>>, <<>>, id.ts) :
        id \in Identities, ip \in Addresses}

\* the payload an entry was stored from
PayloadOf(e) ==
    [ip |-> e.ip, agent_id |-> e.agent_id, cpu |-> e.cpu, processes |-> e.processes,
     users |-> e.users, os_name |-> e.os_name, timestamp |-> e.timestamp]

\* the snapshot of entry j of file i is posted again at server time t: it is
\* the last one its agent has posted, and it goes behind the entries of the
\* same file (Api.py lines 39-48, 25-37)
Redeliver(i, j, t) ==
    /\ Quiet
    /\ EntryCount(store) <= MaxRecords
    /\ i \in 1..Len(store)
    /\ store[i].ok
    /\ j \in 1..Len(store[i].data)
    /\ \A f \in 1..Len(store) : \A n \in 1..Len(store[f].data) :
           /\ store[f].data[n].received_at <= t
           /\ (store[f].data[n].agent_id = store[i].data[j].agent_id /\ <<f, n>> # <<i, j>>)
                  => /\ store[f].data[n].received_at <= store[i].data[j].received_at
                     /\ f = i => n < j
    /\ store' = [store EXCEPT ![i].data =
                    Append(@, StoredEntry(PayloadOf(store[i].data[j]), t))]
    /\ UNCHANGED <<now, stats, resp, ipVars, procVars, sendVars, loopVars, storeVars>>

(***************************************************************************)
(* Specifications                                                          *)
(***************************************************************************)
IpIdle == ip_in = NoValue /\ ip_out = NoValue

ProcIdle ==
    /\ process_list = <<>>
    /\ skipped = FALSE
    /\ denied_seen = FALSE
    /\ snapshot = NoValue

SendIdle ==
    /\ retries = 0
    /\ backoff = 0
    /\ attempt = 0
    /\ outcomes = <<>>
    /\ sleeps = <<>>
    /\ result = NoValue

LoopIdle == env = NoValue /\ info = NoValue /\ printed = <<>> /\ prev = "none"

StoreIdle ==
    /\ files = [ts \in Timestamps |-> Absent]
    /\ req = [r \in Requests |-> IdleRequest]
    /\ reader = IdleReader

StatsIdle == store = <<>> /\ now = 0 /\ stats = NoValue /\ resp = NoValue

InitIP ==
    /\ ip_in \in IpInputs
    /\ ip_out = NoValue
    /\ pc = "off"
    /\ ProcIdle /\ SendIdle /\ LoopIdle /\ StoreIdle /\ StatsIdle

SpecIP == InitIP /\ [][ResolveIP]_vars

InitProcs ==
    pc = "off" /\ IpIdle /\ ProcIdle /\ SendIdle /\ LoopIdle /\ StoreIdle /\ StatsIdle

CpuOutcomes == {[kind |-> "ok", v |-> c] : c \in CpuReadings}
               \cup {[kind |-> "raise", v |-> 0]}

NextProcs ==
    \/ \E first \in {Num(c) : c \in CpuReadings} \cup {PyNone},
          again \in CpuOutcomes : SecondPass(first, again)
    \/ FinishCollect

SpecProcs == InitProcs /\ [][NextProcs]_vars

InitSend ==
    /\ pc = "send"
    /\ retries \in 0..MaxRetries
    /\ backoff \in 1..MaxBackoff
    /\ attempt = 0
    /\ outcomes = <<>>
    /\ sleeps = <<>>
    /\ result = NoValue
    /\ IpIdle /\ ProcIdle /\ LoopIdle /\ StoreIdle /\ StatsIdle

NextSend ==
    \/ \E o \in PostOutcomes : SendAttempt(o)
    \/ SendSleep
    \/ SendGiveUp

SpecSend == InitSend /\ [][NextSend]_vars

InitLoop ==
    pc = "top" /\ IpIdle /\ ProcIdle /\ SendIdle /\ LoopIdle /\ StoreIdle /\ StatsIdle

NextLoop ==
    \/ LoopTop
    \/ LoopCollect
    \/ \E o \in PostOutcomes : SendAttempt(o)
    \/ SendSleep
    \/ SendGiveUp
    \/ LoopMarker
    \/ LoopHandler
    \/ LoopSleep

SpecLoop == InitLoop /\ [][NextLoop]_vars

\* the loop is one sequential thread: every step it can take, it takes (each
\* POST ends within its timeout, each sleep ends)
FairLoop == SpecLoop /\ WF_vars(NextLoop)

InitStore ==
    pc = "off" /\ StoreIdle /\ IpIdle /\ ProcIdle /\ SendIdle /\ LoopIdle /\ StatsIdle

NextStore ==
    \/ \E r \in Requests, ts \in Timestamps : ReceiveInfo(r, ts)
    \/ \E r \in Requests : SaveRead(r)
    \/ \E r \in Requests : SaveOpenWrite(r)
    \/ \E r \in Requests : SaveWrite(r)
    \/ ReadStart
    \/ \E ts \in Timestamps : ReadFile(ts)
    \/ ReadReturn

SpecStore == InitStore /\ [][NextStore]_vars

InitStats ==
    pc = "off" /\ StatsIdle /\ IpIdle /\ ProcIdle /\ SendIdle /\ LoopIdle /\ StoreIdle

NextStats ==
    \/ \E p \in Payloads, t \in RecvTimes, k \in 1..(MaxRecords + 1) : PostSend(p, t, k)
    \/ \E k \in 1..MaxRecords : CorruptFile(k)
    \/ \E e \in ForeignEntries, k \in 1..(MaxRecords + 1) : ForeignFile(e, k)
    \/ \E t \in NowTimes : GetStats(t)
    \/ \E ip \in QueriedAddresses : QueryInfo(ip)
    \/ \E ip \in QueriedAddresses \cup {JsonNull} : DownloadJson(ip)
    \/ \E ip \in QueriedAddresses \cup {JsonNull} : DownloadCsv(ip)

SpecStats == InitStats /\ [][NextStats]_vars

\* the records carry sessions, then GET /api/stats
NextUsers ==
    \/ \E p \in SessionPayloads, t \in RecvTimes, k \in 1..(MaxRecords + 1) :
           PostSend(p, t, k)
    \/ \E t \in NowTimes : GetStats(t)

SpecUsers == InitStats /\ [][NextUsers]_vars

\* many snapshots arrive at the same second, then GET /api/stats
NextTop ==
    \/ \E p \in BusyPayloads, k \in 1..2 : PostOfMany(p, 180, k)
    \/ GetStats(300)

SpecTop == InitStats /\ [][NextTop]_vars

\* snapshots arrive, some of them twice, then GET /api/stats
NextRetry ==
    \/ \E p \in RetryPayloads, t \in RetryTimes, k \in 1..(MaxRecords + 1) :
           PostSend(p, t, k)
    \/ \E i, j \in 1..(MaxRecords + 1), t \in RetryTimes : Redeliver(i, j, t)
    \/ \E t \in RetryNowTimes : GetStats(t)

SpecRetry == InitStats /\ [][NextRetry]_vars

(***************************************************************************)
(* Properties                                                              *)
(***************************************************************************)
\* C1: when two POST /send requests have run, concurrently or not, and no
\* other, then once both have completed get_all_data_from_json returns both
\* of their records.
C1_NoLostRecord ==
    \A r1, r2 \in Requests :
        (/\ r1 # r2
         /\ req[r1].pc = "done"
         /\ req[r2].pc = "done"
         /\ \A r \in Requests \ {r1, r2} : req[r].pc = "idle")
        => {Entry(r1, req[r1].ts), Entry(r2, req[r2].ts)} \subseteq get_all_data_from_json

\* C2: an aggregation read returns every record whose append had completed
\* when the read started, whatever appends run beside it.
C2_ConsistentSnapshot ==
    reader.pc = "done" => reader.before \subseteq Range(reader.results)

\* no attempt made send_to_api return True
AllAttemptsFailed ==
    \A i \in 1..Len(outcomes) :
        outcomes[i].kind = "raise" \/ outcomes[i].code # 200

SumSeq(q) == IF q = <<>> THEN 0
             ELSE IF Len(q) = 1 THEN q[1]
             ELSE IF Len(q) = 2 THEN q[1] + q[2]
             ELSE q[1] + q[2] + q[3] + (IF Len(q) > 3 THEN q[4] ELSE 0)

\* C3: when every attempt fails, send_to_api(retries = N, backoff = B) has
\* made exactly N attempts and slept B * 2^i after attempt i for each
\* i < N - 1 when it returns, and it returns False; for N = 3 and B = 2 that
\* is 3 attempts and 6 seconds of sleep.
C3_AllFailRetries ==
    (pc = "returned" /\ AllAttemptsFailed) =>
        /\ Len(outcomes) = retries
        /\ Len(sleeps) = (IF retries = 0 THEN 0 ELSE retries - 1)
        /\ \A i \in 1..Len(sleeps) : sleeps[i] = backoff * 2^(i - 1)
        /\ result = Ret(FALSE)
        /\ (retries = 3 /\ backoff = 2) => (Len(outcomes) = 3 /\ SumSeq(sleeps) = 6)

C3_Witness ==
    /\ pc = "returned"
    /\ retries = 3
    /\ backoff = 2
    /\ Len(outcomes) = 3
    /\ AllAttemptsFailed
    /\ sleeps = <<2, 4>>
    /\ \E i \in 1..3 : outcomes[i].kind = "raise"
    /\ \E i \in 1..3 : outcomes[i].kind = "status"

Is2xx(o) == o.kind = "status" /\ o.code \in 200..299

\* C4: an attempt is a success exactly when its response status is 2xx: a
\* 2xx response makes send_to_api return True on that attempt, and it returns
\* True on no other outcome.
C4_SuccessIff2xx ==
    /\ \A i \in 1..Len(outcomes) :
          Is2xx(outcomes[i]) =>
              pc = "returned" /\ result = Ret(TRUE) /\ i = Len(outcomes)
    /\ (pc = "returned" /\ result = Ret(TRUE)) => Is2xx(outcomes[Len(outcomes)])

\* C5: an exception in an iteration reaches the handler, never ends the loop,
\* and after the handler and after the sleep the next iteration begins.
C5_LoopContinues ==
    /\ [](pc # "crashed")
    /\ (pc = "handler") ~> (pc = "top")
    /\ (pc = "sleep") ~> (pc = "top")

C5_Witness == pc = "top" /\ prev = "failed"

Markers == SelectSeq(printed, LAMBDA l : l \in {"success", "failure"})

\* C6: a cycle in which collect_system_info and send_to_api both returned has
\* printed exactly one marker line, the one that matches the send's result.
C6_OneMarkerPerCycle ==
    (pc = "sleep" /\ info.kind = "ret" /\ result.kind = "ret") =>
        Markers = <<IF result.value THEN "success" ELSE "failure">>

S1Failed == ip_in.s1.kind = "raise" \/ IsLoopback(ip_in.s1.ip)
S2Failed == ip_in.s2.kind = "raise" \/ ScanInterfaces(ip_in.s2.addrs).kind # "ip"
S3Failed == ip_in.s3.kind = "raise" \/ IsLoopback(ip_in.s3.ip)

InTried(k) == k \in Range(ip_out.tried)

\* C7: get_real_ip returns a loopback address only if strategies 1, 2 and 3
\* all failed or gave a rejected value, and a loopback address from strategy 1
\* sends the chain on to strategy 2.
C7_LoopbackOnlyIfAllFailed ==
    ip_out.kind = "ret" =>
        /\ IsLoopback(ip_out.ip) => (S1Failed /\ S2Failed /\ S3Failed)
        /\ (ip_in.s1.kind = "ip" /\ IsLoopback(ip_in.s1.ip)) => InTried(2)

Warnings == SelectSeq(ip_out.log, LAMBDA l : l.level = "warning")

StrategyFailed(k) ==
    \/ k = 1 /\ ip_in.s1.kind = "raise"
    \/ k = 2 /\ S2Failed
    \/ k = 3 /\ S3Failed

FailedTried == {k \in 1..3 : InTried(k) /\ StrategyFailed(k)}

\* C8: get_real_ip returns a value, tries a strategy only after the ones
\* before it failed, and logs a warning for every strategy that yielded no
\* accepted address.
C8_EveryFailureWarns ==
    ip_out.kind = "ret" =>
        /\ InTried(2) => ip_in.s1.kind = "raise"
        /\ InTried(3) => S2Failed
        /\ InTried(4) => S3Failed
        /\ Len(Warnings) >= Cardinality(FailedTried)

IsSortedDesc(P) ==
    \A i, j \in 1..Len(P) :
        i < j => /\ ~P[i].cpu_percent.isnone
                 /\ ~P[j].cpu_percent.isnone
                 /\ P[i].cpu_percent.v >= P[j].cpu_percent.v

\* C9: the processes of a snapshot are at most 10 of the sampled processes,
\* sorted non-increasing by cpu_percent, and no sampled process left out has
\* a greater cpu_percent than one in the list.
C9_TopProcesses ==
    snapshot.kind = "ret" =>
        LET P == snapshot.data.processes IN
        /\ Len(P) <= 10
        /\ IsSortedDesc(P)
        /\ Range(P) \subseteq Range(process_list)
        /\ Cardinality(Range(P)) = Len(P)
        /\ \A q \in Range(P), o \in Range(process_list) \ Range(P) :
              /\ ~o.cpu_percent.isnone
              /\ ~q.cpu_percent.isnone
              /\ o.cpu_percent.v <= q.cpu_percent.v

C9_Witness ==
    /\ snapshot.kind = "ret"
    /\ skipped
    /\ Len(process_list) = 11
    /\ Len(snapshot.data.processes) = 10
    /\ snapshot.data.processes[1].cpu_percent.v = 5
    /\ snapshot.data.processes[10].cpu_percent.v = 0
    /\ process_list[1].cpu_percent.v = 0

SubFailures ==
    (IF env.cpu.kind = "raise" THEN {"cpu"} ELSE {})
    \cup (IF env.iter = "raise" THEN {"processes"} ELSE {})
    \cup (IF env.users.kind = "raise" THEN {"users"} ELSE {})
    \cup (IF env.os.kind = "raise" THEN {"os"} ELSE {})

\* C10: when one sub-collection fails, collect_system_info still returns a
\* snapshot, with the agent_id it was given and a timestamp.
C10_PartialFailureDegrades ==
    (info.kind # "none" /\ Cardinality(SubFailures) = 1) =>
        /\ info.kind = "ret"
        /\ info.data.agent_id = AgentId
        /\ info.data.timestamp = env.now

\* the records get_stats was given: the store does not change once a
\* response is there
Listed == ListAllData(store)

AgentIdsIn(data) ==
    {data[i].agent_id : i \in {j \in 1..Len(data) : Truthy(data[j].agent_id)}}

RecordsOf(data, id) == {i \in 1..Len(data) : data[i].agent_id = id}

\* the record of an agent with the latest timestamp
LatestOf(data, id) ==
    CHOOSE i \in RecordsOf(data, id) :
        \A j \in RecordsOf(data, id) : data[j].timestamp <= data[i].timestamp

\* what a distribution gives for one label
CountOf(distribution, label) ==
    IF \E i \in 1..Len(distribution.labels) : distribution.labels[i] = label
    THEN distribution.data[CHOOSE i \in 1..Len(distribution.labels) :
                                distribution.labels[i] = label]
    ELSE 0

\* every record names its agent, and the records of one agent differ in
\* their timestamps
AgentsNamed(data) ==
    /\ \A i \in 1..Len(data) : data[i].missing = {} /\ Truthy(data[i].agent_id)
    /\ \A i, j \in 1..Len(data) :
           (i # j /\ data[i].agent_id = data[j].agent_id)
               => data[i].timestamp # data[j].timestamp

\* C11: when the records of each agent_id differ in their timestamps, then in
\* whatever order the store lists them the IP and OS distributions count
\* every agent once, under the IP and the OS of its record with the latest
\* timestamp.
C11_LatestRecordWins ==
    (stats.kind = "ok" /\ Listed # <<>> /\ AgentsNamed(Listed)) =>
        /\ \A ip \in Addresses :
               CountOf(stats.ip_activity, ip) =
                   Cardinality({id \in AgentIdsIn(Listed) :
                                    Listed[LatestOf(Listed, id)].ip = ip})
        /\ \A os \in {OsOf(ip) : ip \in Addresses} :
               CountOf(stats.os_distribution, os) =
                   Cardinality({id \in AgentIdsIn(Listed) :
                                    Listed[LatestOf(Listed, id)].os_name = os})

\* the records of every agent are listed by increasing timestamp
ListedInTimestampOrder(data) ==
    \A i, j \in 1..Len(data) :
        (i < j /\ data[i].agent_id = data[j].agent_id)
            => data[i].timestamp <= data[j].timestamp

\* every agent is counted once in each distribution
C11_CountedOnce ==
    (stats.kind = "ok" /\ Listed # <<>> /\ AgentsNamed(Listed)) =>
        /\ Sum(stats.ip_activity.data) = Cardinality(AgentIdsIn(Listed))
        /\ Sum(stats.os_distribution.data) = Cardinality(AgentIdsIn(Listed))

\* the latest record wins when the store lists it last
C11_LatestWinsWhenListedLast ==
    (stats.kind = "ok" /\ Listed # <<>> /\ AgentsNamed(Listed)
     /\ ListedInTimestampOrder(Listed)) =>
        \A ip \in Addresses :
            CountOf(stats.ip_activity, ip) =
                Cardinality({id \in AgentIdsIn(Listed) :
                                 Listed[LatestOf(Listed, id)].ip = ip})

\* the key under which a record is to be deduplicated: its agent_id, or its
\* IP when it has none
DedupKey(item) == IF Truthy(item.agent_id) THEN item.agent_id ELSE item.ip

HasNullAgent(data) ==
    \E i \in 1..Len(data) : data[i].missing = {} /\ data[i].agent_id = JsonNull

\* C12: a record stored with a null agent_id is counted in the OS and IP
\* distributions under its IP: the distributions count as many agents as the
\* records have distinct keys, and the IP of such a record has a count.
C12_NullAgentCountedByIp ==
    (stats.kind = "ok" /\ HasNullAgent(Listed)
     /\ \A i \in 1..Len(Listed) : Listed[i].missing = {}) =>
        /\ Sum(stats.ip_activity.data) =
               Cardinality({DedupKey(Listed[i]) : i \in 1..Len(Listed)})
        /\ Sum(stats.os_distribution.data) =
               Cardinality({DedupKey(Listed[i]) : i \in 1..Len(Listed)})
        /\ \A i \in 1..Len(Listed) :
               Listed[i].agent_id = JsonNull
                   => CountOf(stats.ip_activity, Listed[i].ip) >= 1

\* the record of an agent that was received last
MostRecentOf(data, id) ==
    CHOOSE i \in RecordsOf(data, id) :
        \A j \in RecordsOf(data, id) : data[j].received_at <= data[i].received_at

AllReceived(data) == \A i \in 1..Len(data) : Has(data[i], "received_at")

\* C13: active_agents is the number of distinct agent ids whose most recent
\* record was received less than 300 seconds before now; an agent is counted
\* once however many of its records are in the window, and not at all when
\* none is.
C13_ActiveAgents ==
    (stats.kind = "ok" /\ AllReceived(Listed)) =>
        stats.active_agents =
            Cardinality({id \in AgentIdsIn(Listed) :
                now - Listed[MostRecentOf(Listed, id)].received_at < ActiveWindow})

\* one agent with a record outside the window and one inside it, counted once
C13_Witness ==
    /\ stats.kind = "ok"
    /\ Len(Listed) = 2
    /\ Listed[1].agent_id = "agent-1"
    /\ Listed[2].agent_id = "agent-1"
    /\ now - Listed[1].received_at >= ActiveWindow
    /\ now - Listed[2].received_at < ActiveWindow
    /\ stats.active_agents = 1

\* the records that have a frequency: a cpu dict whose frequency is not null
\* and not absent
KnownFrequencies(data) ==
    SelectSeq(data, LAMBDA item : ~item.cpu.empty /\ item.cpu.frequency.kind = "dict")

\* every record was written by POST /send and none of its processes has a
\* cpu_percent of None
WellFormed(data) ==
    \A i \in 1..Len(data) :
        /\ data[i].missing = {}
        /\ \A j \in 1..Len(data[i].processes) : ~data[i].processes[j].cpu_percent.isnone

\* C14: the average CPU frequency is the mean of cpu.frequency.current over
\* exactly the records that have a frequency; a record whose frequency is
\* null or absent neither counts as 0 nor makes the aggregation fail.
C14_MeanOverKnownFrequencies ==
    (stats.kind # "none" /\ Listed # <<>> /\ WellFormed(Listed)) =>
        /\ stats.kind = "ok"
        /\ LET known == KnownFrequencies(Listed)
               total == Sum([i \in 1..Len(known) |-> known[i].cpu.frequency.current])
           IN IF known = <<>> THEN stats.avg_cpu.num = 0
              ELSE stats.avg_cpu.num * Len(known) * 1000 = total * stats.avg_cpu.den

\* the mean is right when every record has a frequency
C14_MeanWhenAllKnown ==
    (stats.kind # "none" /\ Listed # <<>> /\ WellFormed(Listed)
     /\ \A i \in 1..Len(Listed) : Listed[i].cpu.frequency.kind = "dict") =>
        /\ stats.kind = "ok"
        /\ LET total == Sum([i \in 1..Len(Listed) |-> Listed[i].cpu.frequency.current])
           IN stats.avg_cpu.num * Len(Listed) * 1000 = total * stats.avg_cpu.den

\* a null frequency makes the aggregation fail
C14_NullFrequencyFails ==
    (stats.kind # "none"
     /\ \E i \in 1..Len(Listed) : Listed[i].cpu.frequency.kind = "null")
        => stats.kind = "raise"

\* the cpu_percent of every process of every listed record (the listings
\* here have no more than LatestRecords records)
ProcessesSeen(data) ==
    {at \in (1..Len(data)) \X (1..TopShown) : at[2] <= Len(data[at[1]].processes)}

CpuOf(data, at) == data[at[1]].processes[at[2]].cpu_percent.v

AlertsOfRule(rule) == SelectSeq(stats.alerts, LAMBDA alert : alert.rule = rule)

\* C15: a process above 80% raises the critical alert, a process above 50%
\* and up to 80% the elevated one; 50% exactly raises none and 80% exactly
\* is elevated, not critical; each message states the number of processes in
\* its band.
C15_AlertThresholds ==
    (stats.kind = "ok" /\ WellFormed(Listed)) =>
        LET critical == {at \in ProcessesSeen(Listed) : CpuOf(Listed, at) > 80}
            elevated == {at \in ProcessesSeen(Listed) :
                            CpuOf(Listed, at) > 50 /\ CpuOf(Listed, at) <= 80}
        IN /\ (critical = {}) = (AlertsOfRule("critical") = <<>>)
           /\ (elevated = {}) = (AlertsOfRule("elevated") = <<>>)
           /\ \A i \in 1..Len(stats.alerts) :
                  /\ stats.alerts[i].rule = "critical"
                         => /\ stats.alerts[i].n = Cardinality(critical)
                            /\ stats.alerts[i].type = "danger"
                  /\ stats.alerts[i].rule = "elevated"
                         => /\ stats.alerts[i].n = Cardinality(elevated)
                            /\ stats.alerts[i].type = "warning"

\* processes at 50, 51 and 80: one elevated alert for two processes, and no
\* critical one
C15_Witness ==
    /\ stats.kind = "ok"
    /\ {CpuOf(Listed, at) : at \in ProcessesSeen(Listed)} = {50, 51, 80}
    /\ AlertsOfRule("critical") = <<>>
    /\ Len(AlertsOfRule("elevated")) = 1
    /\ AlertsOfRule("elevated")[1].n = 2

\* the latest receipt time among the records
LastReceived(data) ==
    CHOOSE t \in {data[i].received_at : i \in 1..Len(data)} :
        \A i \in 1..Len(data) : data[i].received_at <= t

\* the place of a rule's alert in the list, 0 when it has none
PlaceOf(rule) ==
    IF \E i \in 1..Len(stats.alerts) : stats.alerts[i].rule = rule
    THEN CHOOSE i \in 1..Len(stats.alerts) : stats.alerts[i].rule = rule
    ELSE 0

Before(rule1, rule2) ==
    (PlaceOf(rule1) # 0 /\ PlaceOf(rule2) # 0) => PlaceOf(rule1) < PlaceOf(rule2)

\* at most one alert per rule, in the order critical, elevated, stale
OnePerRuleInOrder ==
    /\ \A rule \in {"critical", "elevated", "stale"} : Len(AlertsOfRule(rule)) <= 1
    /\ \A i \in 1..Len(stats.alerts) :
           stats.alerts[i].rule \in {"critical", "elevated", "stale"}
    /\ Before("critical", "elevated")
    /\ Before("critical", "stale")
    /\ Before("elevated", "stale")

\* C16: the alert list has at most one critical-CPU alert, one elevated-CPU
\* alert and one staleness alert, in that order, and each is there exactly
\* when its condition holds: a process above 80%, a process above 50% and up
\* to 80%, the most recent record received more than 120 seconds ago.
C16_OneAlertPerRule ==
    (stats.kind = "ok" /\ Listed # <<>> /\ WellFormed(Listed)) =>
        /\ OnePerRuleInOrder
        /\ (PlaceOf("critical") # 0) =
               (\E at \in ProcessesSeen(Listed) : CpuOf(Listed, at) > 80)
        /\ (PlaceOf("elevated") # 0) =
               (\E at \in ProcessesSeen(Listed) :
                    CpuOf(Listed, at) > 50 /\ CpuOf(Listed, at) <= 80)
        /\ (PlaceOf("stale") # 0) = (now - LastReceived(Listed) > 120)

\* the list has one alert per rule at most, in order, whatever the records
C16_StructureHolds ==
    stats.kind = "ok" => OnePerRuleInOrder

\* C17: the staleness alert is there exactly when the latest receipt time of
\* all the records, in whatever order the store lists them, is more than 120
\* seconds before now, and its message states the whole minutes elapsed
\* since then.
C17_StaleAfterLatestReceipt ==
    (stats.kind = "ok" /\ Listed # <<>> /\ AllReceived(Listed)) =>
        LET elapsed == now - LastReceived(Listed)
        IN /\ (elapsed > 120) = (AlertsOfRule("stale") # <<>>)
           /\ \A i \in 1..Len(AlertsOfRule("stale")) :
                  AlertsOfRule("stale")[i].n = elapsed \div 60

\* the alert is right when the store lists the most recent record last
C17_RightWhenListedLast ==
    (stats.kind = "ok" /\ Listed # <<>> /\ AllReceived(Listed)
     /\ Listed[Len(Listed)].received_at = LastReceived(Listed)) =>
        LET elapsed == now - LastReceived(Listed)
        IN /\ (elapsed > 120) = (AlertsOfRule("stale") # <<>>)
           /\ \A i \in 1..Len(AlertsOfRule("stale")) :
                  AlertsOfRule("stale")[i].n = elapsed \div 60

\* C18: on an empty store GET /api/stats answers with total_records,
\* active_agents, avg_cpu, total_processes and active_users all 0, every
\* sequence empty, no alert, and last_update the current time.
C18_EmptyStore ==
    (stats.kind # "none" /\ Listed = <<>>) =>
        /\ stats.kind = "ok"
        /\ stats.total_records = 0
        /\ stats.active_agents = 0
        /\ stats.avg_cpu.num = 0
        /\ stats.total_processes = 0
        /\ stats.active_users = 0
        /\ \A chart \in {stats.cpu_timeline, stats.os_distribution,
                         stats.ip_activity, stats.top_processes} :
               chart.labels = <<>> /\ chart.data = <<>>
        /\ stats.processes = <<>>
        /\ stats.users = <<>>
        /\ stats.high_cpu_processes = <<>>
        /\ stats.alerts = <<>>
        /\ stats.last_update = now

\* the directory holds one file, which does not parse: the store is empty
C18_Witness ==
    /\ stats.kind = "ok"
    /\ Len(store) = 1
    /\ ~store[1].ok
    /\ stats.total_records = 0
    /\ stats.last_update = now
    /\ now = 300

\* the entries of the files that parse which lack none of their keys
SoundRecords == SelectSeq(Listed, LAMBDA item : item.missing = {})

BadFiles == {i \in 1..Len(store) : ~store[i].ok}

BadEntries == {i \in 1..Len(Listed) : Listed[i].missing # {}}

\* C19: when one stored file does not parse, or one entry of a file that
\* parses lacks its timestamp, ip or received_at, GET /api/stats skips it and
\* answers with the statistics of all the other records.
C19_OneBadRecordSkipped ==
    (/\ stats.kind # "none"
     /\ Cardinality(BadFiles) + Cardinality(BadEntries) = 1
     /\ get_stats(SoundRecords, now).kind = "ok") =>
        stats = get_stats(SoundRecords, now)

\* a file that does not parse is skipped
C19_UnparseableFileSkipped ==
    (/\ stats.kind # "none"
     /\ Cardinality(BadFiles) = 1
     /\ BadEntries = {}
     /\ get_stats(SoundRecords, now).kind = "ok") =>
        stats = get_stats(SoundRecords, now)

\* an entry without timestamp or ip makes the request fail
C19_AbsentKeyFails ==
    (/\ stats.kind # "none"
     /\ \E i \in BadEntries : Listed[i].missing \cap {"timestamp", "ip"} # {}) =>
        stats.kind = "raise"

\* the stored records a request for ip is about: those with that ip, or all
\* of them when the request names no ip
Matching(ip) ==
    IF Truthy(ip)
    THEN SelectSeq(Listed, LAMBDA item : Has(item, "ip") /\ item.ip = ip)
    ELSE Listed

\* C20: /query, /download/json and /download/csv answer 404 when no stored
\* record matches; /api/stats on an empty store answers with all counters 0;
\* and when a record matches, /query answers with exactly the records whose
\* ip is the queried one.
C20_NotFoundAndExactMatch ==
    /\ (resp.kind = "resp" /\ Matching(resp.ip) = <<>>)
           => resp.response.status = 404
    /\ (resp.kind = "resp" /\ resp.endpoint = "/query" /\ Matching(resp.ip) # <<>>)
           => /\ resp.response.status = 200
              /\ resp.response.body = Matching(resp.ip)
    /\ (stats.kind # "none" /\ Listed = <<>>)
           => /\ stats.kind = "ok"
              /\ stats.total_records + stats.active_agents + stats.total_processes
                     + stats.active_users + stats.avg_cpu.num = 0

\* two records from two addresses are stored and /query returns the one of
\* the queried address
C20_Witness ==
    /\ resp.kind = "resp"
    /\ resp.endpoint = "/query"
    /\ Len(Listed) = 2
    /\ Listed[1].ip = "10.0.0.6"
    /\ Listed[2].ip = resp.ip
    /\ resp.response.status = 200
    /\ resp.response.body = <<Listed[2]>>

\* no record of the queried address: 404 from the three endpoints
C20_NotFoundReached ==
    /\ resp.kind = "resp"
    /\ Listed # <<>>
    /\ resp.ip = "10.0.0.9"
    /\ resp.endpoint = "/download/csv"
    /\ resp.response.status = 404

\* the triple of a session
Triple(user) == <<user.name, user.terminal, user.ip>>

\* the sessions of the 10 most recent snapshots, flattened
SessionsSeen == AllUsers(Listed)

\* the place where a triple occurs first among the sessions seen
FirstPlace(triple) ==
    CHOOSE i \in 1..Len(SessionsSeen) :
        /\ Triple(SessionsSeen[i]) = triple
        /\ \A j \in 1..(i - 1) : Triple(SessionsSeen[j]) # triple

\* C21: the users list has exactly one entry for each distinct triple (name,
\* terminal, ip) among the sessions of the 10 most recent snapshots, in the
\* order of first occurrence: sessions are merged only when all three
\* components are equal, and active_users is the number of distinct triples.
C21_UsersByTriple ==
    (stats.kind = "ok" /\ WellFormed(Listed)) =>
        LET triples == {Triple(SessionsSeen[i]) : i \in 1..Len(SessionsSeen)}
        IN /\ stats.active_users = Cardinality(triples)
           /\ Len(stats.users) = Cardinality(triples)
           /\ {Triple(stats.users[i]) : i \in 1..Len(stats.users)} = triples
           /\ \A i, j \in 1..Len(stats.users) :
                  i < j => FirstPlace(Triple(stats.users[i]))
                               < FirstPlace(Triple(stats.users[j]))

\* no two sessions seen differ in their triples and agree in their keys
KeysTellTriplesApart ==
    \A i, j \in 1..Len(SessionsSeen) :
        UserKey(SessionsSeen[i]) = UserKey(SessionsSeen[j])
            => Triple(SessionsSeen[i]) = Triple(SessionsSeen[j])

\* the list is right whenever the keys tell the triples apart
C21_RightWhenKeysDiffer ==
    (stats.kind = "ok" /\ WellFormed(Listed) /\ KeysTellTriplesApart) =>
        LET triples == {Triple(SessionsSeen[i]) : i \in 1..Len(SessionsSeen)}
        IN /\ stats.active_users = Cardinality(triples)
           /\ {Triple(stats.users[i]) : i \in 1..Len(stats.users)} = triples
           /\ \A i, j \in 1..Len(stats.users) :
                  i < j => FirstPlace(Triple(stats.users[i]))
                               < FirstPlace(Triple(stats.users[j]))

\* how often x occurs in a sequence
Occurrences(s, x) == Cardinality({i \in 1..Len(s) : s[i] = x})

\* chosen is a choice of the n latest of the records: n of them, or all when
\* there are fewer, and no record left out is later than one chosen
LatestChoice(chosen, records, n) ==
    /\ Len(chosen) = Min(n, Len(records))
    /\ \A r \in Range(chosen) : Occurrences(chosen, r) <= Occurrences(records, r)
    /\ \A r \in Range(records) :
           Occurrences(chosen, r) < Occurrences(records, r)
               => \A c \in Range(chosen) : r.timestamp <= c.timestamp

\* the processes of some snapshots, one after the other, each with the ip and
\* the timestamp of its snapshot
ProcessesOf(snapshots) ==
    Flatten([i \in 1..Len(snapshots) |->
        [j \in 1..Len(snapshots[i].processes) |->
            [name |-> snapshots[i].processes[j].name,
             pid |-> snapshots[i].processes[j].pid,
             cpu_percent |-> snapshots[i].processes[j].cpu_percent,
             ip |-> snapshots[i].ip,
             timestamp |-> snapshots[i].timestamp]]])

WithCpuPercent(s, v) == SelectSeq(s, LAMBDA p : p.cpu_percent.v = v)

\* top is the first n of flat by cpu_percent: n of them or all, sorted
\* non-increasing, equal ones in the order flat has them, none left out that
\* is greater than one taken
TopOf(top, flat, n) ==
    /\ Len(top) = Min(n, Len(flat))
    /\ \A i \in 1..(Len(top) - 1) : top[i].cpu_percent.v >= top[i + 1].cpu_percent.v
    /\ \A v \in {p.cpu_percent.v : p \in Range(flat) \cup Range(top)} :
           /\ Len(WithCpuPercent(top, v)) <= Len(WithCpuPercent(flat, v))
           /\ WithCpuPercent(top, v) =
                  FirstN(WithCpuPercent(flat, v), Len(WithCpuPercent(top, v)))
           /\ Len(WithCpuPercent(top, v)) < Len(WithCpuPercent(flat, v))
                  => \A p \in Range(top) : v <= p.cpu_percent.v

\* C22: the top-processes list is drawn only from the process lists of the
\* 10 snapshots with the latest timestamps, has min(10, number of flattened
\* processes) entries, is sorted non-increasing by cpu_percent with equal
\* ones in their original order, and leaves out no process of the flattened
\* ones that has a greater cpu_percent than one it includes.
C22_TopOfLatestSnapshots ==
    (stats.kind = "ok" /\ WellFormed(Listed)) =>
        LET latest == LatestData(Listed)
        IN /\ LatestChoice(latest, Listed, 10)
           /\ TopOf(stats.processes, ProcessesOf(latest), 10)
           /\ stats.top_processes.data =
                  [i \in 1..Len(stats.processes) |-> stats.processes[i].cpu_percent.v]

\* eleven snapshots, the earliest listed last: its process at 5 percent is
\* not in the list of ten, which ends with processes at 0 percent
C22_Witness ==
    /\ stats.kind = "ok"
    /\ Len(Listed) = 11
    /\ Listed[11].timestamp = 10
    /\ Listed[1].timestamp = 170
    /\ Len(ProcessesOf(Listed)) > 11
    /\ Len(stats.processes) = 10
    /\ \A i \in 1..10 : stats.processes[i].timestamp = 170
    /\ stats.processes[1].cpu_percent.v = 5
    /\ stats.processes[10].cpu_percent.v = 0

WithoutAt(s, k) == SubSeq(s, 1, k - 1) \o SubSeq(s, k + 1, Len(s))

\* records i and j hold the same snapshot, j the delivery behind i
StoredTwice(data, i, j) ==
    /\ i < j
    /\ PayloadOf(data[i]) = PayloadOf(data[j])
    /\ \A k \in (i + 1)..(j - 1) : data[k].agent_id # data[i].agent_id

\* the bars of a distribution: each label with its count
Bars(d) == {<<d.labels[i], d.data[i]>> : i \in 1..Len(d.labels)}

\* two distributions have the same bars, as many of them, whatever their order
SameDistribution(d1, d2) ==
    /\ Len(d1.labels) = Len(d2.labels)
    /\ Len(d1.data) = Len(d2.data)
    /\ Bars(d1) = Bars(d2)

SameAgentsAndDistributions(s1, s2) ==
    /\ s2.kind = "ok"
    /\ s1.active_agents = s2.active_agents
    /\ SameDistribution(s1.os_distribution, s2.os_distribution)
    /\ SameDistribution(s1.ip_activity, s2.ip_activity)

\* both deliveries are inside the window of the active agents, or both outside
SameSideOfWindow(t1, t2) == (now - t1 < ActiveWindow) = (now - t2 < ActiveWindow)

C23_AsFirstDeliveryAlone ==
    (stats.kind = "ok" /\ WellFormed(Listed)) =>
        \A i, j \in 1..Len(Listed) :
            StoredTwice(Listed, i, j) =>
                stats.active_agents = get_stats(WithoutAt(Listed, j), now).active_agents

\* attempt i succeeded: its POST returned with status 200
Succeeded(i) == outcomes[i].kind = "status" /\ outcomes[i].code = 200

\* C24: whatever the outcomes of the attempts, send_to_api makes at most
\* retries POSTs; once an attempt has succeeded it makes no other attempt
\* and does not sleep; it never sleeps after the last of the retries
\* attempts; it returns True exactly when an attempt succeeded; and with
\* retries = 0 it makes no attempt and returns False.
C24_BoundedAttempts ==
    /\ Len(outcomes) <= retries
    /\ Len(sleeps) <= Len(outcomes)
    /\ \A i \in 1..Len(outcomes) :
           Succeeded(i) => /\ i = Len(outcomes)
                           /\ Len(sleeps) = i - 1
                           /\ pc = "returned"
    /\ Len(outcomes) = retries => Len(sleeps) <= Max(retries - 1, 0)
    /\ pc = "returned" =>
           /\ result.kind = "ret"
           /\ result.value = (\E i \in 1..Len(outcomes) : Succeeded(i))
           /\ retries = 0 => (outcomes = <<>> /\ sleeps = <<>> /\ result.value = FALSE)

\* the second of three attempts succeeds: two POSTs, one sleep, True
C24_Witness ==
    /\ pc = "returned"
    /\ retries = 3
    /\ Len(outcomes) = 2
    /\ ~Succeeded(1)
    /\ Succeeded(2)
    /\ Len(sleeps) = 1
    /\ result.value = TRUE

\* retries = 0: no attempt, False
C24_NoAttemptReached ==
    /\ pc = "returned"
    /\ retries = 0
    /\ outcomes = <<>>
    /\ result.value = FALSE

====
